---------------------------- MODULE Spec2Model ----------------------------
(***************************************************************************)
(* Model of the recommendation form of frontend/src/App.js: the component  *)
(* state kept in React hooks, the input change handlers, and the async     *)
(* submit handler handleSubmit with its read-then-create-on-miss logic.    *)
(* An invocation of handleSubmit runs in segments separated by its awaits; *)
(* each segment is one action.  Optional JavaScript values (undefined or a *)
(* value) are sequences of length 0 or 1.  Numbers of the threshold        *)
(* inputs are written in their canonical decimal form.                     *)
(***************************************************************************)
EXTENDS Integers, Sequences, FiniteSets, TLC

VARIABLES
    userId,           \* useState("")            App.js:6
    recommendations,  \* useState([])            App.js:7
    loading,          \* useState(false)         App.js:8
    error,            \* useState(null)          App.js:9
    thresholds,       \* useState({...})         App.js:10-14
    running,          \* invocations of handleSubmit suspended at an await
    network,          \* requests issued and not yet answered
    last              \* summary of the invocation completed since the latest
                      \* submit event, if any

vars == <<userId, recommendations, loading, error, thresholds, running,
          network, last>>

---------------------------------------------------------------------------
(* Bounds of the model *)

\* longest recommendation list a response carries
MaxLen == 1

\* most invocations of handleSubmit suspended at once
MaxRunning == 2

---------------------------------------------------------------------------
(* Values *)

None == <<>>
Some(x) == <<x>>

null == None

\* filters.top_k of the create request
TopK == 5

\* the status the read fallback absorbs
NotFound == 404

\* texts the user types into the userId input
UserIdTexts == {"", "u1", "u2"}

\* texts the user types into the motivation and pressure inputs
MotivationTexts == {".3"}
PressureTexts == {""}

CreditLevels == {"none", "partial", "full"}

\* parseFloat on the texts above: "" has no number prefix
ParseFloat(t) ==
    CASE t = ".3" -> "0.3"
      [] t = ""   -> "NaN"

Recommendation == [chatroom_id : {"c1"}, predicted_score : {"0.873"}]

RECURSIVE SeqsUpTo(_, _)
SeqsUpTo(S, n) ==
    IF n = 0 THEN {<<>>}
    ELSE LET shorter == SeqsUpTo(S, n - 1)
         IN shorter \cup {Append(s, x) : s \in {q \in shorter : Len(q) = n - 1}, x \in S}

\* response.data of a successful call: the recommendations field may be absent
ResponseData ==
    {[recommendations |-> None]}
        \cup {[recommendations |-> Some(l)] : l \in SeqsUpTo(Recommendation, MaxLen)}

Details == {None, Some(""), Some("boom")}

\* a transport failure: err.response is undefined
NetworkError == [hasResponse |-> FALSE, status |-> 0, detail |-> None]

\* rejections of an axios call: no response, or a non-2xx status whose body
\* may carry a detail field
Errors ==
    {NetworkError}
        \cup [hasResponse : {TRUE}, status : {NotFound, 500}, detail : Details]

-------------------------------------------------------------------------------------------------------------------------------------------------
(* Pure parts of handleSubmit and of the render *)

\* response.data.recommendations || []
OrEmpty(o) == IF o = None THEN <<>> ELSE o[1]

IsNotFoundStrict(err) == FALSE

IsNotFoundAnyStatus(err) == err.hasResponse

\* err.response?.status === 404
IsNotFound(err) == err.hasResponse /\ err.status = NotFound

\* truthiness of err.response?.data?.detail
Truthy(d) == d # None /\ d[1] # ""

ErrorMessageGeneric(err) == "Failed to get recommendations"

ErrorMessage(err) ==
    IF err.hasResponse /\ Truthy(err.detail)
    THEN "Error: " \o err.detail[1]
    ELSE "Failed to get recommendations"

GetRequest(id, uid) ==
    [sub |-> id, method |-> "GET", path |-> "/recommendations/" \o uid, body |-> None]

PostBodyLive(inv) ==
    [user_id |-> userId, filters |-> [top_k |-> TopK], thresholds |-> thresholds]

\* the body of the create request, from the userId and thresholds the
\* invocation closed over
PostBody(inv) ==
    [user_id |-> inv.userId, filters |-> [top_k |-> TopK], thresholds |-> inv.thresholds]

PostRequest(inv) ==
    [sub |-> inv.id, method |-> "POST", path |-> "/recommendations",
     body |-> Some(PostBody(inv))]

\* {error && <div className="error">{error}</div>}
ErrorShown == IF error # null /\ error[1] # "" THEN error ELSE None

\* one card per recommendation, keyed by chatroom_id, when the list is non-empty
CardsOf(recs) ==
    IF Len(recs) > 0 THEN [i \in 1..Len(recs) |-> recs[i].chatroom_id] ELSE <<>>

Cards == CardsOf(recommendations)

SubmitEnabledNoDisable == userId # ""

\* the submit button is disabled while loading; the userId input is required
SubmitEnabled == ~loading /\ userId # ""

FreeId == CHOOSE i \in 1..MaxRunning : \A inv \in running : inv.id # i

---------------------------------------------------------------------------
Init ==
    /\ userId = ""
    /\ recommendations = <<>>
    /\ loading = FALSE
    /\ error = null
    /\ thresholds = [motivation |-> "0.1", pressure |-> "0.5", credit_level |-> "partial"]
    /\ running = {}
    /\ network = {}
    /\ last = None

---------------------------------------------------------------------------
(* Input change handlers *)

SetUserId(t) ==
    /\ userId' = t
    /\ UNCHANGED <<recommendations, loading, error, thresholds, running, network, last>>

SetMotivation(t) ==
    /\ thresholds' = [thresholds EXCEPT !.motivation = ParseFloat(t)]
    /\ UNCHANGED <<userId, recommendations, loading, error, running, network, last>>

SetPressure(t) ==
    /\ thresholds' = [thresholds EXCEPT !.pressure = ParseFloat(t)]
    /\ UNCHANGED <<userId, recommendations, loading, error, running, network, last>>

SetCreditLevel(v) ==
    /\ thresholds' = [thresholds EXCEPT !.credit_level = v]
    /\ UNCHANGED <<userId, recommendations, loading, error, running, network, last>>

---------------------------------------------------------------------------
(* handleSubmit *)

\* The invocation started by a submit event.  userId and thresholds are the
\* bindings of the render whose handler the event calls.  The other fields
\* are its history: the component state when the event fired (submitted),
\* the requests it issued, whether each input had been edited since the
\* event when it issued the create request (atCreate), and the outcome of
\* each call.
NewInvocation ==
    [id |-> FreeId, userId |-> userId, thresholds |-> thresholds, pc |-> "awaitGet",
     submitted |-> [userId |-> userId, thresholds |-> thresholds,
                    recommendations |-> recommendations, error |-> error],
     issued |-> <<GetRequest(FreeId, userId)>>,
     atCreate |-> None,
     read |-> "pending", readErr |-> None,
     create |-> "none", createErr |-> None, data |-> None]

RequestsAtSubmitParallel(inv) == {inv.issued[1], PostRequest(inv)}

\* requests on the wire once the segment up to the first await has run
RequestsAtSubmit(inv) == {inv.issued[1]}

ErrorAtSubmitKept == error

\* setError(null)
ErrorAtSubmit == null

\* from the submit event to the first await
Submit ==
    /\ SubmitEnabled
    /\ Cardinality(running) < MaxRunning
    /\ loading' = TRUE
    /\ error' = ErrorAtSubmit
    /\ running' = running \cup {NewInvocation}
    /\ network' = network \cup RequestsAtSubmit(NewInvocation)
    /\ last' = None
    /\ UNCHANGED <<userId, recommendations, thresholds>>

FinallyLoadingKept == loading

\* finally { setLoading(false) }
FinallyLoading == FALSE

\* what is kept of an invocation: the methods of the requests it issued, the
\* outcome of each call, and the state it started from
Summary(inv) ==
    [id |-> inv.id, pc |-> inv.pc,
     recsBefore |-> inv.submitted.recommendations,
     errorBefore |-> inv.submitted.error,
     methods |-> [i \in 1..Len(inv.issued) |-> inv.issued[i].method],
     read |-> inv.read, readErr |-> inv.readErr,
     create |-> inv.create, createErr |-> inv.createErr, data |-> inv.data]

\* the invocation returns
Complete(inv, done) ==
    /\ running' = running \ {inv}
    /\ last' = Some(Summary([done EXCEPT !.pc = "done"]))
    /\ loading' = FinallyLoading

\* the create request is issued and the invocation suspends on it
IssueCreate(inv, next) ==
    LET waiting == [next EXCEPT !.pc = "awaitPost", !.create = "pending",
                                !.issued = Append(@, PostRequest(inv)),
                                !.atCreate =
                                    Some([userIdEdited |-> userId # inv.submitted.userId,
                                          thresholdsEdited |->
                                              thresholds # inv.submitted.thresholds])]
    IN /\ running' = (running \ {inv}) \cup {waiting}
       /\ network' = (network \ {inv.issued[1]}) \cup {PostRequest(inv)}
       /\ UNCHANGED <<loading, last>>

GetOkNoReturn(inv, data) ==
    /\ inv \in running /\ inv.pc = "awaitGet"
    /\ inv.issued[1] \in network
    /\ recommendations' = OrEmpty(data.recommendations)
    /\ IssueCreate(inv, [inv EXCEPT !.read = "ok", !.data = Some(data)])
    /\ UNCHANGED <<userId, error, thresholds>>

\* the read request resolves: setRecommendations, return, finally
GetOk(inv, data) ==
    /\ inv \in running /\ inv.pc = "awaitGet"
    /\ inv.issued[1] \in network
    /\ network' = network \ {inv.issued[1]}
    /\ recommendations' = OrEmpty(data.recommendations)
    /\ Complete(inv, [inv EXCEPT !.read = "ok", !.data = Some(data)])
    /\ UNCHANGED <<userId, error, thresholds>>

RecsOnErrorCleared == <<>>

\* the recommendations after the outer catch has run: it does not set them
RecsOnError == recommendations

\* catch (err) of the outer try, then finally
Catch(inv, done, err) ==
    /\ error' = Some(ErrorMessage(err))
    /\ recommendations' = RecsOnError
    /\ Complete(inv, done)

\* the read request rejects: the inner catch rethrows unless the status is 404
GetRejected(inv, err) ==
    /\ inv \in running /\ inv.pc = "awaitGet"
    /\ inv.issued[1] \in network
    /\ LET seen == [inv EXCEPT !.read = "rejected", !.readErr = Some(err)]
       IN IF IsNotFound(err)
          THEN /\ IssueCreate(inv, seen)
               /\ UNCHANGED <<recommendations, error>>
          ELSE /\ network' = network \ {inv.issued[1]}
               /\ Catch(inv, seen, err)
    /\ UNCHANGED <<userId, thresholds>>

\* the create request resolves
PostOk(inv, data) ==
    /\ inv \in running /\ inv.pc = "awaitPost"
    /\ inv.issued[2] \in network
    /\ network' = network \ {inv.issued[2]}
    /\ recommendations' = OrEmpty(data.recommendations)
    /\ Complete(inv, [inv EXCEPT !.create = "ok", !.data = Some(data)])
    /\ UNCHANGED <<userId, error, thresholds>>

\* the create request rejects
PostRejected(inv, err) ==
    /\ inv \in running /\ inv.pc = "awaitPost"
    /\ inv.issued[2] \in network
    /\ network' = network \ {inv.issued[2]}
    /\ Catch(inv, [inv EXCEPT !.create = "rejected", !.createErr = Some(err)], err)
    /\ UNCHANGED <<userId, thresholds>>

---------------------------------------------------------------------------
Edit ==
    \/ \E t \in UserIdTexts : SetUserId(t)
    \/ \E t \in MotivationTexts : SetMotivation(t)
    \/ \E t \in PressureTexts : SetPressure(t)
    \/ \E v \in CreditLevels : SetCreditLevel(v)

ReadResponds ==
    \E inv \in running :
        \/ \E data \in ResponseData : GetOk(inv, data)
        \/ \E err \in Errors : GetRejected(inv, err)

CreateResponds ==
    \E inv \in running :
        \/ \E data \in ResponseData : PostOk(inv, data)
        \/ \E err \in Errors : PostRejected(inv, err)

Next ==
    \/ Edit
    \/ Submit
    \/ ReadResponds
    \/ CreateResponds

Spec == Init /\ [][Next]_vars

\* every issued request eventually gets a response or a failure
FairSpec == Spec /\ WF_vars(ReadResponds) /\ WF_vars(CreateResponds)

---------------------------------------------------------------------------
(* Properties *)

\* every invocation started since the latest completion, running or completed
Started == {Summary(inv) : inv \in running} \cup {last[i] : i \in 1..Len(last)}

Posts(s) == Cardinality({i \in DOMAIN s.methods : s.methods[i] = "POST"})

ReadGot404(s) ==
    s.readErr # None /\ s.readErr[1].hasResponse /\ s.readErr[1].status = 404

ReadFailedOtherwise(s) == s.readErr # None /\ ~ReadGot404(s)

Succeeded(s) == s.pc = "done" /\ (s.read = "ok" \/ s.create = "ok")

\* C1: a submission whose read request succeeds issues no create request, and
\* when it completes the recommendations are the list of the read response,
\* or the empty sequence when the response omits the list.
C1_ReadSuccessStops ==
    /\ \A s \in Started : s.read = "ok" => Posts(s) = 0 /\ s.pc = "done"
    /\ \A inv \in running : inv.read = "ok" =>
           ~\E r \in network : r.sub = inv.id /\ r.method = "POST"
    /\ (last # None /\ last[1].read = "ok") =>
           recommendations = (IF last[1].data[1].recommendations = <<>>
                              THEN <<>>
                              ELSE last[1].data[1].recommendations[1])

\* a read response that omits the list has replaced a non-empty list
C1_Witness ==
    /\ last # None /\ last[1].read = "ok"
    /\ last[1].data[1].recommendations = None
    /\ last[1].recsBefore # <<>>
    /\ recommendations = <<>>

\* C2: a submission whose read request fails with status 404 issues the
\* create request exactly once, with the body { user_id, filters: { top_k: 5 },
\* thresholds } of the userId and thresholds it was submitted with, and if the
\* create succeeds the recommendations on completion are the list of the
\* create response, or the empty sequence when the list is omitted.
C2_MissCreatesOnce ==
    /\ \A inv \in running : ReadGot404(Summary(inv)) =>
           /\ Len(inv.issued) = 2
           /\ inv.issued[1].method = "GET"
           /\ inv.issued[2] =
                  [sub |-> inv.id, method |-> "POST", path |-> "/recommendations",
                   body |-> <<[user_id |-> inv.submitted.userId,
                               filters |-> [top_k |-> 5],
                               thresholds |-> inv.submitted.thresholds]>>]
    /\ (last # None /\ ReadGot404(last[1])) =>
           /\ last[1].methods = <<"GET", "POST">>
           /\ last[1].create = "ok" =>
                  recommendations = (IF last[1].data[1].recommendations = <<>>
                                     THEN <<>>
                                     ELSE last[1].data[1].recommendations[1])

\* a create after a 404 has succeeded with a non-empty list
C2_Witness ==
    /\ last # None /\ ReadGot404(last[1]) /\ last[1].create = "ok"
    /\ last[1].data[1].recommendations # None
    /\ Len(recommendations) > 0

\* C3: a submission whose read request fails otherwise than with status 404
\* issues no create request, and when it completes the error is non-null and
\* the recommendations are what they were before the submission.
C3_ReadFailureIsTerminal ==
    /\ \A s \in Started : ReadFailedOtherwise(s) => Posts(s) = 0 /\ s.pc = "done"
    /\ (last # None /\ ReadFailedOtherwise(last[1])) =>
           /\ error # null
           /\ recommendations = last[1].recsBefore

\* a transport failure of the read, with recommendations held from before
C3_Witness ==
    /\ last # None /\ last[1].readErr = Some(NetworkError)
    /\ last[1].recsBefore # <<>>
    /\ error # null

\* C4: after a submission completes, by any path, loading is false; and every
\* submission that set loading eventually clears it, given that every issued
\* request is eventually answered.
C4_LoadingCleared ==
    /\ [](last # None => ~loading)
    /\ (loading ~> ~loading)

\* a submission has completed through a failed create
C4_Witness ==
    /\ last # None /\ last[1].createErr # None
    /\ ~loading

\* C5 as stated: resubmission is not prevented while a request is outstanding
C5_ResubmitNotPrevented ==
    (network # {} /\ userId # "") => ENABLED Submit

\* C5, amended: the submit button is disabled while loading, so no submit
\* event starts a submission while another is in flight: at most one
\* invocation of the handler is suspended at any time, and loading is true
\* exactly while one is.
C5_OneSubmissionInFlight ==
    /\ Cardinality(running) <= 1
    /\ loading = (running # {})
    /\ running # {} => ~ENABLED Submit

\* a request is outstanding, the userId input is filled, and submit is disabled
C5_Witness ==
    /\ network # {} /\ userId # ""
    /\ running # {} /\ ~ENABLED Submit

\* C6: within a submission at most one request is in flight, and the create
\* request is issued only after the read request's outcome is known.
C6_CallsSequential ==
    \A inv \in running :
        /\ Cardinality({r \in network : r.sub = inv.id}) <= 1
        /\ \A r \in network : (r.sub = inv.id /\ r.method = "POST") =>
               /\ inv.read # "pending"
               /\ inv.issued[1] \notin network

\* the create request of a submission is in flight
C6_Witness ==
    \E inv \in running : \E r \in network : r.sub = inv.id /\ r.method = "POST"

ReadGot500(s) ==
    s.readErr # None /\ s.readErr[1].hasResponse /\ s.readErr[1].status = 500

\* C7 as stated: after a submission whose read fails with 500, an error is
\* shown, no cards are shown, and no create request was made
C7_NoCardsAfter500 ==
    (last # None /\ ReadGot500(last[1])) =>
        /\ ErrorShown # None
        /\ Cards = <<>>
        /\ Posts(last[1]) = 0

\* C7, amended: after a submission whose read fails with 500, an error is
\* shown, the cards shown are those of the recommendations held before the
\* submission (none when none were held), and no create request was made.
C7_CardsKeptAfter500 ==
    (last # None /\ ReadGot500(last[1])) =>
        /\ ErrorShown # None
        /\ Cards = [i \in 1..Len(last[1].recsBefore) |-> last[1].recsBefore[i].chatroom_id]
        /\ Posts(last[1]) = 0

\* a read has failed with 500 while cards of an earlier submission are shown
C7_Witness ==
    /\ last # None /\ ReadGot500(last[1])
    /\ Len(last[1].recsBefore) > 0
    /\ Len(Cards) > 0

\* the failure that ended a submission: a read failure other than 404, or a
\* create failure
TerminalFailure(s) ==
    IF s.createErr # None THEN s.createErr
    ELSE IF ReadFailedOtherwise(s) THEN s.readErr
    ELSE None

\* the requests issued up to the failure
MethodsUpTo(s) == IF s.createErr # None THEN <<"GET", "POST">> ELSE <<"GET">>

FailureIsLast(s) ==
    /\ s.pc = "done"
    /\ s.methods = MethodsUpTo(s)
    /\ ~\E r \in network : r.sub = s.id

\* C8 as stated: the error is "Error: <detail>" whenever the failure response
\* carries a detail field
C8_DetailWheneverPresent ==
    \A s \in Started : TerminalFailure(s) # None =>
        LET e == TerminalFailure(s)[1]
        IN /\ FailureIsLast(s)
           /\ error = <<IF e.hasResponse /\ e.detail # None
                        THEN "Error: " \o e.detail[1]
                        ELSE "Failed to get recommendations">>

\* C8, amended: a failure not absorbed by the 404-on-read fallback ends the
\* submission with no further request, and error is "Error: <detail>" when
\* the failure response carries a detail field that is truthy (for a string,
\* non-empty), otherwise "Failed to get recommendations".
C8_DetailWhenTruthy ==
    \A s \in Started : TerminalFailure(s) # None =>
        LET e == TerminalFailure(s)[1]
        IN /\ FailureIsLast(s)
           /\ error = <<IF e.hasResponse /\ e.detail # None /\ e.detail[1] # ""
                        THEN "Error: " \o e.detail[1]
                        ELSE "Failed to get recommendations">>

\* a create has failed with 404 and a detail, and the detail is shown
C8_Witness ==
    /\ last # None /\ last[1].createErr # None
    /\ last[1].createErr[1].status = 404
    /\ last[1].createErr[1].detail = <<"boom">>
    /\ error = <<"Error: boom">>

\* C9: a submit clears the error, so a submission that completes successfully
\* ends with error null and loading false, whatever the error was before.
C9_SuccessEndsClean ==
    /\ running # {} => error = null
    /\ \A s \in Started : Succeeded(s) => error = null /\ ~loading

\* a successful submission has completed from a state that held an error
C9_Witness ==
    /\ last # None /\ Succeeded(last[1])
    /\ last[1].errorBefore # null
    /\ error = null

\* C10: the create request carries the userId of the same submission's read
\* request and the thresholds held at the submit event, also when the inputs
\* were edited while the read request was in flight.
C10_CreateUsesSubmitValues ==
    \A inv \in running : Len(inv.issued) = 2 =>
        LET body == inv.issued[2].body[1]
        IN /\ body.user_id = inv.submitted.userId
           /\ inv.issued[1].path = "/recommendations/" \o body.user_id
           /\ body.thresholds = inv.submitted.thresholds

\* both inputs were edited between the submit event and the create request
C10_Witness ==
    \E inv \in running :
        /\ Len(inv.issued) = 2
        /\ inv.atCreate = Some([userIdEdited |-> TRUE, thresholdsEdited |-> TRUE])

===========================================================================
